---- MODULE Spec2Model ----
(***************************************************************************)
(* pugrs: a Pug-style template compiler.  Lexer (src/src/lex.rs), parser   *)
(* and element renderer (src/src/parse.rs), top-level renderer             *)
(* (src/src/render.rs).                                                    *)
(*                                                                         *)
(* A String is a sequence of one-character strings (Unicode scalar         *)
(* values); String::len() is the UTF-8 byte length, StrLen below.          *)
(* A usize is held as the representative of its residue mod 2^64 that is   *)
(* nearest to 0: a negative representative n stands for 2^64 + n, so the   *)
(* wrapping + and - of a release build are the integer + and -.            *)
(***************************************************************************)
EXTENDS Integers, Sequences, FiniteSets, TLC

VARIABLES
    src,              \* Lexer.src
    overflow_checks,  \* the build: TRUE = arithmetic overflow panics (debug profile)
    pc,               \* "start", "scan", "lexed", "panic", "parsed", "rendered"
    p,                \* chars taken from c_iter (the Peekable<Chars> of tokenize)
    pos,              \* Lexer.pos
    indents,          \* the local indents of tokenize
    tokens,           \* Lexer.tokens
    stop,             \* why scanning ended: "" while scanning
    lineLevel,        \* history: leading-space count of the last line start
    popped,           \* history: levels popped at the last line start
    nodes,            \* the Vec<Node> returned by Parser::parse
    index,            \* Parser.index
    events,           \* history: one record per successful Parser::next
    html,             \* the String returned by render
    calls,            \* history: calls of tokenize on the Lexer, of parse on the Parser
    earlier           \* history: get_tokens() and the nodes after the first call

vars == <<src, overflow_checks, pc, p, pos, indents, tokens, stop,
          lineLevel, popped, nodes, index, events, html, calls, earlier>>

-----------------------------------------------------------------------------
(* Characters *)

Letters == {"a", "b", "c", "d", "e", "f", "g", "h", "i", "j", "k", "l", "m",
            "n", "o", "p", "q", "r", "s", "t", "u", "v", "w", "x", "y", "z"}
Digits == {"0", "1", "2", "3", "4", "5", "6", "7", "8", "9"}

\* char::is_ascii_alphabetic, is_ascii_alphanumeric, is_ascii_whitespace
IsAsciiAlphabetic(c) == c \in Letters
IsAsciiAlphanumeric(c) == c \in Letters \cup Digits
AsciiWhitespace == {" ", "\t", "\n", "\r"}
NameChars == Letters \cup Digits \cup {"-", "_"}
Quotes == {"\"", "'"}

\* UTF-8 length of one scalar value
ByteLen(c) == IF c = "é" THEN 2 ELSE IF c = "ペ" THEN 3 ELSE 1

RECURSIVE StrLen(_)
StrLen(s) == IF s = <<>> THEN 0 ELSE ByteLen(Head(s)) + StrLen(Tail(s))

StartsWith(s, prefix) ==
    Len(s) >= Len(prefix) /\ SubSeq(s, 1, Len(prefix)) = prefix

Spaces(n) == [k \in 1..n |-> " "]

DoctypeHtml == <<"d", "o", "c", "t", "y", "p", "e", " ", "h", "t", "m", "l">>
NameHtml == <<"h", "t", "m", "l">>

-----------------------------------------------------------------------------
(* Lexer *)

NoChar == "<none>"

\* Peekable::peek on c_iter after i chars were taken
Peek(i) == IF i < Len(src) THEN src[i + 1] ELSE NoChar

\* consume_while: the iterator position after the maximal run of chars in S
ConsumeWhileIn(i, S) ==
    CHOOSE j \in i..Len(src) :
        /\ \A k \in (i + 1)..j : src[k] \in S
        /\ (j = Len(src) \/ src[j + 1] \notin S)

\* consume_while with a closure c != x for x in T
ConsumeWhileNotIn(i, T) ==
    CHOOSE j \in i..Len(src) :
        /\ \A k \in (i + 1)..j : src[k] \notin T
        /\ (j = Len(src) \/ src[j + 1] \in T)

ConsumeName(i) == ConsumeWhileIn(i, NameChars)
ConsumeWhitespaces(i) == ConsumeWhileIn(i, AsciiWhitespace)

\* the String collected between two iterator positions
Taken(i, j) == SubSeq(src, i + 1, j)

\* add_token: Token { ty, start, end: start + length }
Tok(ty, s, v, start, length) ==
    [ty |-> ty, s |-> s, v |-> v, start |-> start, end |-> start + length]

\* tokenize, lines 146-154: the doctype line
FirstLine == Taken(0, ConsumeWhileNotIn(0, {"\n"}))

IsDoctype(line) == StartsWith(line, DoctypeHtml)

DoctypeName(line) == NameHtml

\* consume_line: the rest of the line and its line break
ConsumeLine(i) ==
    LET j == ConsumeWhileNotIn(i, {"\n"})
    IN  IF j > i /\ j < Len(src) THEN j + 1 ELSE j

TokenizeStart ==
    /\ pc = "start"
    /\ IF IsDoctype(FirstLine)
       THEN LET j == ConsumeLine(p)
            IN  /\ p' = j
                /\ pos' = pos + (j - p)
                /\ tokens' = Append(tokens,
                       Tok("Doctype", DoctypeName(FirstLine), <<>>, 0, StrLen(FirstLine)))
       ELSE UNCHANGED <<p, pos, tokens>>
    /\ indents' = <<0>>
    /\ pc' = "scan"
    /\ UNCHANGED <<src, overflow_checks, stop, lineLevel, popped,
                   nodes, index, events, html, calls, earlier>>

\* lines 157-163: end of input
LexEof ==
    /\ pc = "scan"
    /\ Peek(p) = NoChar
    /\ pc' = "lexed"
    /\ stop' = "eof"
    /\ UNCHANGED <<src, overflow_checks, p, pos, indents, tokens, lineLevel,
                   popped, nodes, index, events, html, calls, earlier>>

\* lines 165-172: Tag
LexTag ==
    /\ pc = "scan"
    /\ IsAsciiAlphabetic(Peek(p))
    /\ LET j == ConsumeName(p)
           name == Taken(p, j)
       IN  /\ p' = j
           /\ pos' = pos + (j - p)
           /\ tokens' = Append(tokens, Tok("Tag", name, <<>>, pos, StrLen(name)))
    /\ UNCHANGED <<src, overflow_checks, pc, indents, stop, lineLevel, popped,
                   nodes, index, events, html, calls, earlier>>

IsIndentOrEqual(level, prev) == level >= prev

\* lines 190, 194: the comparison of the new line's level with the stack top
IsIndent(level, prev) == level > prev
IsOutdent(level, prev) == level < prev

\* line 197: the condition of the outdent loop
OutdentMore(level, sz, n) == level < sz /\ n > 0

\* lines 196-202: the outdent loop.  r.fail is "" or the reason of the panic.
RECURSIVE OutdentLoop(_, _, _, _, _)
OutdentLoop(level, sz, ind, toks, pop) ==
    IF ~OutdentMore(level, sz, Len(ind))
    THEN [indents |-> ind, tokens |-> toks, popped |-> pop, fail |-> ""]
    ELSE LET ind1 == SubSeq(ind, 1, Len(ind) - 1)
             pop1 == Append(pop, ind[Len(ind)])
         IN  IF Len(ind1) = 0
             THEN [indents |-> ind1, tokens |-> toks, popped |-> pop1, fail |-> "index"]
             ELSE LET sz1 == ind1[Len(ind1)]
                  IN  IF sz1 < level /\ overflow_checks
                      THEN [indents |-> ind1, tokens |-> toks, popped |-> pop1,
                            fail |-> "overflow"]
                      ELSE OutdentLoop(level, sz1, ind1,
                               Append(toks, Tok("Outdent", <<>>, <<>>, sz1, sz1 - level)),
                               pop1)

\* lines 173-205: NewLine, then the indentation of the next line
LexNewLine ==
    /\ pc = "scan"
    /\ Peek(p) = "\n"
    /\ LET t1 == Append(tokens, Tok("NewLine", <<>>, <<>>, pos, 1))
           start == pos + 1
           j == ConsumeWhileIn(p + 1, {" "})
           level == StrLen(Taken(p + 1, j))
           prev == IF Len(indents) > 0 THEN indents[Len(indents)] ELSE 0
           r == IF IsIndent(level, prev)
                THEN [indents |-> Append(indents, level),
                      tokens |-> Append(t1, Tok("Indent", <<>>, <<>>, start, level)),
                      popped |-> <<>>, fail |-> ""]
                ELSE IF IsOutdent(level, prev)
                THEN OutdentLoop(level, prev, indents, t1, <<>>)
                ELSE [indents |-> indents, tokens |-> t1, popped |-> <<>>, fail |-> ""]
       IN  /\ p' = j
           /\ pos' = pos + (j - p)
           /\ indents' = r.indents
           /\ tokens' = r.tokens
           /\ popped' = r.popped
           /\ lineLevel' = level
           /\ pc' = IF r.fail = "" THEN pc ELSE "panic"
           /\ stop' = r.fail
    /\ UNCHANGED <<src, overflow_checks, nodes, index, events, html, calls, earlier>>

\* lines 206-222: Text
LexText ==
    /\ pc = "scan"
    /\ Peek(p) \in {" ", "|"}
    /\ LET first == Peek(p)
           p1 == p + 1
       IN  IF first = "|" /\ Peek(p1) = NoChar
           THEN /\ p' = p1
                /\ pos' = pos + 1
                /\ pc' = "panic"
                /\ stop' = "pipe"
                /\ UNCHANGED tokens
           ELSE LET p2 == IF first = "|" /\ Peek(p1) = " " THEN p1 + 1 ELSE p1
                    len == p2 - p
                    j == ConsumeWhileNotIn(p2, {"\n"})
                    body == Taken(p2, j)
                IN  /\ p' = j
                    /\ pos' = pos + (j - p)
                    /\ tokens' = IF j > p2
                                 THEN Append(tokens,
                                          Tok("Text", body, <<>>, pos, len + StrLen(body)))
                                 ELSE tokens
                    /\ UNCHANGED <<pc, stop>>
    /\ UNCHANGED <<src, overflow_checks, indents, lineLevel, popped,
                   nodes, index, events, html, calls, earlier>>

\* lines 225-230 and 235-240: the token of a selector whose mark is at p
SelectorToken(ty) ==
    LET j == ConsumeName(p + 1)
        posAfter == pos + (j - p)
    IN  /\ p' = j
        /\ pos' = posAfter
        /\ tokens' = IF j > p + 1
                     THEN Append(tokens,
                              Tok(ty, Taken(p + 1, j), <<>>, pos, posAfter - pos))
                     ELSE tokens

\* lines 223-232: Id
LexId ==
    /\ pc = "scan"
    /\ Peek(p) = "#"
    /\ SelectorToken("Id")
    /\ UNCHANGED <<src, overflow_checks, pc, indents, stop, lineLevel, popped,
                   nodes, index, events, html, calls, earlier>>

\* lines 233-242: Class
LexClass ==
    /\ pc = "scan"
    /\ Peek(p) = "."
    /\ SelectorToken("Class")
    /\ UNCHANGED <<src, overflow_checks, pc, indents, stop, lineLevel, popped,
                   nodes, index, events, html, calls, earlier>>

ConsumeQuotedAnyQuote(i) ==
    LET q == ConsumeWhileNotIn(i + 1, {"\"", "'"})
    IN  IF q = Len(src)
        THEN [fail |-> "quote", value |-> <<>>, after |-> q]
        ELSE [fail |-> "", value |-> Taken(i + 1, q), after |-> q + 1]

\* consume_quoted, lines 131-144, entered with the quote sign at position i:
\* the body runs to the next occurrence of the sign; the closing sign is then
\* taken with consume_next, which unwraps the iterator's next char
ConsumeQuoted(i) ==
    LET sign == Peek(i)
        q == ConsumeWhileNotIn(i + 1, {sign})
    IN  IF q = Len(src)
        THEN [fail |-> "quote", value |-> <<>>, after |-> q]
        ELSE [fail |-> "", value |-> Taken(i + 1, q), after |-> q + 1]

\* lines 285-291: an unquoted value, unwrapped
ConsumeUnquoted(i) ==
    LET k == ConsumeWhileNotIn(i, AsciiWhitespace \cup {")"})
    IN  IF k = i
        THEN [fail |-> "value", value |-> <<>>, after |-> i]
        ELSE [fail |-> "", value |-> Taken(i, k), after |-> k]

\* lines 264-296: the value of an attribute whose name ends at position j
AttrValue(j) ==
    LET c == Peek(j)
        d == Peek(j + 1)
    IN  IF c \in AsciiWhitespace
        THEN [fail |-> "", value |-> <<>>, after |-> ConsumeWhitespaces(j)]
        ELSE IF c = "="
        THEN IF d \in AsciiWhitespace
             THEN [fail |-> "", value |-> <<>>, after |-> ConsumeWhitespaces(j + 1)]
             ELSE IF d \in Quotes
             THEN ConsumeQuoted(j + 1)
             ELSE IF d = NoChar
             THEN [fail |-> "", value |-> <<>>, after |-> j + 1]
             ELSE ConsumeUnquoted(j + 1)
        ELSE [fail |-> "", value |-> <<>>, after |-> j]

\* lines 246-303: the loop of the attribute list, from iterator position i.
\* exit: "break" (back to the main loop), "paren" (break 'outer), or the
\* reason of a panic.  A token's start is self.pos = pos + (i - p).
RECURSIVE AttrLoop(_, _)
AttrLoop(i, toks) ==
    LET c == Peek(i)
    IN  IF c = NoChar
        THEN [p |-> i, tokens |-> toks, exit |-> "paren"]
        ELSE IF c = ")"
        THEN [p |-> i + 1, tokens |-> toks, exit |-> "break"]
        ELSE IF c \in AsciiWhitespace
        THEN AttrLoop(ConsumeWhitespaces(i), toks)
        ELSE IF IsAsciiAlphabetic(c)
        THEN LET j == ConsumeName(i)
                 val == AttrValue(j)
                 start == pos + (i - p)
                 len == (pos + (val.after - p)) - start
             IN  IF val.fail # ""
                 THEN [p |-> val.after, tokens |-> toks, exit |-> val.fail]
                 ELSE AttrLoop(val.after,
                          Append(toks, Tok("Attr", Taken(i, j), val.value, start, len)))
        ELSE [p |-> i, tokens |-> toks, exit |-> "break"]

\* lines 247-302: one iteration of the loop of the attribute list, entered
\* at iterator position i: where it leaves the iterator, and whether the loop
\* goes on ("continue") or how it is left
AttrIteration(i) ==
    LET c == Peek(i)
    IN  IF c = NoChar THEN [p |-> i, exit |-> "paren"]
        ELSE IF c = ")" THEN [p |-> i + 1, exit |-> "break"]
        ELSE IF c \in AsciiWhitespace
        THEN [p |-> ConsumeWhitespaces(i), exit |-> "continue"]
        ELSE IF IsAsciiAlphabetic(c)
        THEN LET val == AttrValue(ConsumeName(i))
             IN  [p |-> val.after,
                  exit |-> IF val.fail # "" THEN val.fail ELSE "continue"]
        ELSE [p |-> i, exit |-> "break"]

\* lines 243-305: '(' opens an attribute list
LexAttrs ==
    /\ pc = "scan"
    /\ Peek(p) = "("
    /\ LET r == AttrLoop(p + 1, tokens)
       IN  /\ p' = r.p
           \* consume_quoted counts the char it fails to take (line 94)
           /\ pos' = pos + (r.p - p) + (IF r.exit = "quote" THEN 1 ELSE 0)
           /\ tokens' = r.tokens
           /\ pc' = IF r.exit = "break" THEN pc
                    ELSE IF r.exit = "paren" THEN "lexed" ELSE "panic"
           /\ stop' = IF r.exit = "break" THEN stop ELSE r.exit
    /\ UNCHANGED <<src, overflow_checks, indents, lineLevel, popped,
                   nodes, index, events, html, calls, earlier>>

LexSlashStays ==
    /\ pc = "scan"
    /\ Peek(p) = "/"
    /\ tokens' = Append(tokens, Tok("Slash", <<>>, <<>>, pos, 1))
    /\ UNCHANGED <<src, overflow_checks, pc, p, pos, indents, stop, lineLevel,
                   popped, nodes, index, events, html, calls, earlier>>

\* lines 306-312: Slash
LexSlash ==
    /\ pc = "scan"
    /\ Peek(p) = "/"
    /\ p' = p + 1
    /\ pos' = pos + 1
    /\ tokens' = Append(tokens, Tok("Slash", <<>>, <<>>, pos, 1))
    /\ UNCHANGED <<src, overflow_checks, pc, indents, stop, lineLevel, popped,
                   nodes, index, events, html, calls, earlier>>

LexColonAlone ==
    /\ pc = "scan"
    /\ Peek(p) = ":"
    /\ p' = p + 1
    /\ pos' = pos + 1
    /\ tokens' = Append(tokens, Tok("Colon", <<>>, <<>>, pos, 1))
    /\ UNCHANGED <<src, overflow_checks, pc, indents, stop, lineLevel, popped,
                   nodes, index, events, html, calls, earlier>>

\* lines 313-321: Colon, then the spaces after it
LexColon ==
    /\ pc = "scan"
    /\ Peek(p) = ":"
    /\ LET j == ConsumeWhileIn(p + 1, {" "})
       IN  /\ p' = j
           /\ pos' = pos + (j - p)
    /\ tokens' = Append(tokens, Tok("Colon", <<>>, <<>>, pos, 1))
    /\ UNCHANGED <<src, overflow_checks, pc, indents, stop, lineLevel, popped,
                   nodes, index, events, html, calls, earlier>>

LexUnexpectedSkips ==
    /\ pc = "scan"
    /\ Peek(p) # NoChar
    /\ ~IsAsciiAlphabetic(Peek(p))
    /\ Peek(p) \notin {"\n", " ", "|", "#", ".", "(", "/", ":"}
    /\ p' = p + 1
    /\ pos' = pos + 1
    /\ UNCHANGED <<src, overflow_checks, pc, indents, tokens, stop, lineLevel,
                   popped, nodes, index, events, html, calls, earlier>>

\* lines 322-325: any other char ends the scan
LexUnexpected ==
    /\ pc = "scan"
    /\ Peek(p) # NoChar
    /\ ~IsAsciiAlphabetic(Peek(p))
    /\ Peek(p) \notin {"\n", " ", "|", "#", ".", "(", "/", ":"}
    /\ pc' = "lexed"
    /\ stop' = "unexpected"
    /\ UNCHANGED <<src, overflow_checks, p, pos, indents, tokens, lineLevel,
                   popped, nodes, index, events, html, calls, earlier>>

-----------------------------------------------------------------------------
(* Parser *)

NameDiv == <<"d", "i", "v">>
NameId == <<"i", "d">>
NameClass == <<"c", "l", "a", "s", "s">>

EmptyNodeAsText == [kind |-> "Text", name |-> <<>>, attrs |-> <<>>, children |-> <<>>,
                    body |-> <<>>]

\* Node: Empty, Element(Box<HTMLElement>), Text(String), Comment
EmptyNode == [kind |-> "Empty", name |-> <<>>, attrs |-> <<>>, children |-> <<>>,
              body |-> <<>>]
TextNode(body) == [kind |-> "Text", name |-> <<>>, attrs |-> <<>>, children |-> <<>>,
                   body |-> body]
\* HTMLElement::new
NewElement(name) == [kind |-> "Element", name |-> name, attrs |-> <<>>,
                     children |-> <<>>, body |-> <<>>]

\* HTMLElement::push_attr, and the attrs.push of create_element
PushAttr(el, name, value) == [el EXCEPT !.attrs = Append(@, <<name, value>>)]

\* children.extend
ExtendChildren(el, ns) == [el EXCEPT !.children = @ \o ns]

ColonChildDropped(el, node) == el

\* line 163: the one node of parse_one becomes a child
ColonChild(el, node) == ExtendChildren(el, <<node>>)

NoToken == [ty |-> "None", s |-> <<>>, v |-> <<>>, start |-> 0, end |-> 0]

\* Parser::new.  st.index is Parser.index; st.events logs each token taken:
\* its position, the function that took it, and the parse() frame that was
\* running (0 = the top-level call, otherwise the position of the Indent
\* whose create_element branch made the call).
NewParser == [index |-> 0, events |-> <<>>]

\* Parser::peek
PPeek(toks, st) == IF Len(toks) > st.index THEN toks[st.index + 1] ELSE NoToken

PNextSkipsOne(toks, st, fn, frame) ==
    IF Len(toks) > st.index
    THEN [index |-> st.index + 2,
          events |-> Append(st.events,
                        [tok |-> st.index + 2, fn |-> fn, frame |-> frame])]
    ELSE st

\* Parser::next
PNext(toks, st, fn, frame) ==
    IF Len(toks) > st.index
    THEN [index |-> st.index + 1,
          events |-> Append(st.events,
                        [tok |-> st.index + 1, fn |-> fn, frame |-> frame])]
    ELSE st

\* lines 140-149: after a NewLine, the element ends on NewLine, Tag or no token
NewLineEndsElement(ty) == ty \in {"NewLine", "Tag", "None"}

RECURSIVE CreateElement(_, _, _, _)
RECURSIVE ParseOne(_, _, _)
RECURSIVE ParseLoop(_, _, _, _)

\* Parser::create_element: the loop, with the element built so far
CreateElement(toks, st, el, frame) ==
    LET t == PPeek(toks, st)
        st1 == PNext(toks, st, "create_element", frame)
    IN  CASE t.ty = "Id" ->
                 CreateElement(toks, st1, PushAttr(el, NameId, t.s), frame)
          [] t.ty = "Class" ->
                 CreateElement(toks, st1, PushAttr(el, NameClass, t.s), frame)
          [] t.ty = "Attr" ->
                 CreateElement(toks, st1, PushAttr(el, t.s, t.v), frame)
          [] t.ty = "Text" ->
                 CreateElement(toks, st1, ExtendChildren(el, <<TextNode(t.s)>>), frame)
          [] t.ty = "NewLine" ->
                 IF NewLineEndsElement(PPeek(toks, st1).ty)
                 THEN [st |-> st1, el |-> el]
                 ELSE CreateElement(toks, st1, el, frame)
          [] t.ty = "Indent" ->
                 LET r == ParseLoop(toks, st1, <<>>, st1.index)
                 IN  CreateElement(toks, r.st, ExtendChildren(el, r.nodes), frame)
          [] t.ty = "Colon" ->
                 LET r == ParseOne(toks, st1, frame)
                 IN  CreateElement(toks, r.st, ColonChild(el, r.node), frame)
          [] OTHER -> [st |-> st, el |-> el]

\* Parser::parse_one
ParseOne(toks, st, frame) ==
    LET t == PPeek(toks, st)
        st1 == PNext(toks, st, "parse_one", frame)
    IN  CASE t.ty = "Text" -> [st |-> st1, node |-> TextNode(t.s)]
          [] t.ty = "Tag" ->
                 LET r == CreateElement(toks, st1, NewElement(t.s), frame)
                 IN  [st |-> r.st, node |-> r.el]
          [] t.ty = "Id" ->
                 LET r == CreateElement(toks, st1, NewElement(NameDiv), frame)
                 IN  [st |-> r.st, node |-> PushAttr(r.el, NameId, t.s)]
          [] t.ty = "Class" ->
                 LET r == CreateElement(toks, st1, NewElement(NameDiv), frame)
                 IN  [st |-> r.st, node |-> PushAttr(r.el, NameClass, t.s)]
          [] OTHER -> [st |-> st1, node |-> EmptyNode]

\* Parser::parse: the loop, with the nodes gathered so far
ParseLoop(toks, st, ns, frame) ==
    LET t == PPeek(toks, st)
    IN  CASE t.ty = "None" -> [st |-> st, nodes |-> ns]
          [] t.ty = "Outdent" ->
                 [st |-> PNext(toks, st, "parse", frame), nodes |-> ns]
          [] t.ty \in {"NewLine", "Slash"} ->
                 ParseLoop(toks, PNext(toks, st, "parse", frame), ns, frame)
          [] OTHER ->
                 LET r == ParseOne(toks, st, frame)
                 IN  ParseLoop(toks, r.st, Append(ns, r.node), frame)

\* lines 208-227: one iteration of the loop of parse() entered with the
\* cursor at i: the cursor it leaves, and whether the loop is left
ParseIteration(toks, i, frame) ==
    LET st == [index |-> i, events |-> <<>>]
        t == PPeek(toks, st)
    IN  CASE t.ty = "None" -> [index |-> i, exit |-> TRUE]
          [] t.ty = "Outdent" ->
                 [index |-> PNext(toks, st, "parse", frame).index, exit |-> TRUE]
          [] t.ty \in {"NewLine", "Slash"} ->
                 [index |-> PNext(toks, st, "parse", frame).index, exit |-> FALSE]
          [] OTHER -> [index |-> ParseOne(toks, st, frame).st.index, exit |-> FALSE]

\* lines 119-175: one iteration of the loop of create_element
CreateIteration(toks, i, frame) ==
    LET st == [index |-> i, events |-> <<>>]
        t == PPeek(toks, st)
        st1 == PNext(toks, st, "create_element", frame)
    IN  CASE t.ty \in {"Id", "Class", "Attr", "Text"} ->
                 [index |-> st1.index, exit |-> FALSE]
          [] t.ty = "NewLine" ->
                 [index |-> st1.index, exit |-> NewLineEndsElement(PPeek(toks, st1).ty)]
          [] t.ty = "Indent" ->
                 [index |-> ParseLoop(toks, st1, <<>>, st1.index).st.index,
                  exit |-> FALSE]
          [] t.ty = "Colon" ->
                 [index |-> ParseOne(toks, st1, frame).st.index, exit |-> FALSE]
          [] OTHER -> [index |-> i, exit |-> TRUE]

\* Parser::new(tokens).parse()
ParseTokens(toks) == ParseLoop(toks, NewParser, <<>>, 0)

Parse ==
    /\ pc = "lexed"
    /\ LET r == ParseTokens(tokens)
       IN  /\ nodes' = r.nodes
           /\ index' = r.st.index
           /\ events' = r.st.events
    /\ pc' = "parsed"
    /\ UNCHANGED <<src, overflow_checks, p, pos, indents, tokens, stop,
                   lineLevel, popped, html, calls, earlier>>

-----------------------------------------------------------------------------
(* Renderer *)

IndentUnitOneSpace == <<" ">>

\* line 31
IndentUnit == <<" ", " ">>

RECURSIVE Repeat(_, _)
Repeat(s, n) == IF n = 0 THEN <<>> ELSE s \o Repeat(s, n - 1)

VoidElements == {
    <<"a", "r", "e", "a">>, <<"b", "a", "s", "e">>, <<"b", "r">>,
    <<"c", "o", "l">>, <<"e", "m", "b", "e", "d">>, <<"h", "r">>,
    <<"i", "m", "g">>, <<"i", "n", "p", "u", "t">>, <<"l", "i", "n", "k">>,
    <<"m", "e", "t", "a">>, <<"p", "a", "r", "a", "m">>,
    <<"s", "o", "u", "r", "c", "e">>, <<"t", "r", "a", "c", "k">>,
    <<"w", "b", "r">>}

\* lines 50-52
IsVoid(name) == name \in VoidElements

\* lines 36-44
RECURSIVE AttrsText(_)
AttrsText(attrs) ==
    IF attrs = <<>> THEN <<>>
    ELSE <<" ">> \o Head(attrs)[1] \o <<"=", "\"">> \o Head(attrs)[2] \o <<"\"">>
         \o AttrsText(Tail(attrs))

\* lines 34-45
OpenTag(e) == <<"<">> \o e.name \o AttrsText(e.attrs) \o <<">">>

\* lines 72-75
CloseTag(e) == <<"<", "/">> \o e.name \o <<">", "\n">>

BreakAfterOpenChildrenOnly(e) == Len(e.children) > 0

\* line 47
BreakAfterOpen(e) == Len(e.children) > 0 \/ Len(e.attrs) > 0

RECURSIVE RenderElement(_, _)
RECURSIVE RenderChildren(_, _)

\* HTMLElement::render
RenderElement(e, indent) ==
    Repeat(IndentUnit, indent) \o OpenTag(e)
    \o (IF BreakAfterOpen(e) THEN <<"\n">> ELSE <<>>)
    \o (IF IsVoid(e.name)
        THEN <<"\n">>
        ELSE RenderChildren(e.children, indent)
             \o Repeat(IndentUnit, indent) \o CloseTag(e))

\* lines 57-69: the children of an element rendered at depth indent
RenderChildren(cs, indent) ==
    IF cs = <<>> THEN <<>>
    ELSE (CASE Head(cs).kind = "Element" -> RenderElement(Head(cs), indent + 1)
            [] Head(cs).kind = "Text" ->
                   Repeat(IndentUnit, indent + 1) \o Head(cs).body \o <<"\n">>
            [] OTHER -> <<>>)
         \o RenderChildren(Tail(cs), indent)

\* render::render
RECURSIVE RenderNodes(_)
RenderNodes(ns) ==
    IF ns = <<>> THEN <<>>
    ELSE (CASE Head(ns).kind = "Element" -> RenderElement(Head(ns), 0)
            [] Head(ns).kind = "Text" -> Head(ns).body
            [] OTHER -> <<>>)
         \o RenderNodes(Tail(ns))

Render ==
    /\ pc = "parsed"
    /\ html' = RenderNodes(nodes)
    /\ pc' = "rendered"
    /\ UNCHANGED <<src, overflow_checks, p, pos, indents, tokens, stop,
                   lineLevel, popped, nodes, index, events, calls, earlier>>

-----------------------------------------------------------------------------
(* Calling tokenize and parse again on the same Lexer and Parser *)

MaxCalls == 2

\* Lexer::tokenize, lines 145-154, entered on a Lexer whose tokenize has
\* returned: c_iter and indents are new locals, self.tokens and self.pos are
\* the fields as the earlier call left them
TokenizeAgain ==
    /\ pc = "lexed"
    /\ calls.tokenize < MaxCalls
    /\ IF IsDoctype(FirstLine)
       THEN LET j == ConsumeLine(0)
            IN  /\ p' = j
                /\ pos' = pos + j
                /\ tokens' = Append(tokens,
                       Tok("Doctype", DoctypeName(FirstLine), <<>>, 0, StrLen(FirstLine)))
       ELSE /\ p' = 0
            /\ UNCHANGED <<pos, tokens>>
    /\ indents' = <<0>>
    /\ pc' = "scan"
    /\ stop' = ""
    /\ calls' = [tokenize |-> calls.tokenize + 1, parse |-> 1]
    /\ earlier' = IF calls.tokenize = 1 THEN [earlier EXCEPT !.tokens = tokens]
                ELSE earlier
    /\ UNCHANGED <<src, overflow_checks, lineLevel, popped, nodes, index, events, html>>

\* Parser::parse, lines 206-229, called on a Parser whose parse has returned:
\* self.index is the field as the earlier call left it
ParseAgain ==
    /\ pc = "parsed"
    /\ calls.parse < MaxCalls
    /\ LET r == ParseLoop(tokens, [index |-> index, events |-> events], <<>>, 0)
       IN  /\ nodes' = r.nodes
           /\ index' = r.st.index
           /\ events' = r.st.events
    /\ calls' = [calls EXCEPT !.parse = @ + 1]
    /\ earlier' = IF calls.parse = 1 THEN [earlier EXCEPT !.nodes = nodes] ELSE earlier
    /\ UNCHANGED <<src, overflow_checks, pc, p, pos, indents, tokens, stop,
                   lineLevel, popped, html>>

-----------------------------------------------------------------------------
(* Inputs *)

MaxLines == 3
MaxLevel == 2
MaxChain == 3

\* what one line of a template holds after its indentation
LineBodies == {<<"p">>, <<".", "w">>, <<"p", " ", "t">>, <<>>}

LineChoices == {Spaces(2 * k) \o b : k \in 0..MaxLevel, b \in LineBodies}

RECURSIVE Join(_, _, _)
Join(f, n, sep) ==
    IF n = 0 THEN <<>>
    ELSE IF n = 1 THEN f[1]
    ELSE Join(f, n - 1, sep) \o sep \o f[n]

\* templates of up to MaxLines space-indented lines, the first one unindented;
\* an empty last line gives the template a final line break
LineSources ==
    UNION {{Join(f, n, <<"\n">>) :
               f \in {g \in [1..n -> LineChoices] : g[1] \in LineBodies}} :
           n \in 1..MaxLines}

ChainNames == {<<"a">>, <<"b", "r">>}

\* colon chains t1: t2: ... tn
ChainSources ==
    UNION {{Join(f, n, <<":", " ">>) : f \in [1..n -> ChainNames]} : n \in 1..MaxChain}

SpecialSources == {
    \* doctype html
    <<"d", "o", "c", "t", "y", "p", "e", " ", "h", "t", "m", "l">>,
    \* doctype html\nhtml\n  p
    <<"d", "o", "c", "t", "y", "p", "e", " ", "h", "t", "m", "l", "\n", "h", "t", "m", "l", "\n", " ", " ", "p">>,
    \* doctype xml
    <<"d", "o", "c", "t", "y", "p", "e", " ", "x", "m", "l">>,
    \* doctype html5\np
    <<"d", "o", "c", "t", "y", "p", "e", " ", "h", "t", "m", "l", "5", "\n", "p">>,
    \* a(b="c
    <<"a", "(", "b", "=", "\"", "c">>,
    \* a(b="c" d=\'e"f\' g)\n  p t
    <<"a", "(", "b", "=", "\"", "c", "\"", " ", "d", "=", "'", "e", "\"", "f", "'", " ", "g", ")", "\n", " ", " ", "p", " ", "t">>,
    \* a(b
    <<"a", "(", "b">>,
    \* a(b=c)/
    <<"a", "(", "b", "=", "c", ")", "/">>,
    \* a(b=)
    <<"a", "(", "b", "=", ")">>,
    \* p(a =b)
    <<"p", "(", "a", " ", "=", "b", ")">>,
    \* p é\nq
    <<"p", " ", "é", "\n", "q">>,
    \* p ペ\n  .w
    <<"p", " ", "ペ", "\n", " ", " ", ".", "w">>,
    \* #x
    <<"#", "x">>,
    \* #x.w
    <<"#", "x", ".", "w">>,
    \* div#x.w
    <<"d", "i", "v", "#", "x", ".", "w">>,
    \* .w#x
    <<".", "w", "#", "x">>,
    \* div.w#x
    <<"d", "i", "v", ".", "w", "#", "x">>,
    \* #x(a=b) t
    <<"#", "x", "(", "a", "=", "b", ")", " ", "t">>,
    \* html\n  body\n    .wrapper\n      p hello
    <<"h", "t", "m", "l", "\n", " ", " ", "b", "o", "d", "y", "\n", " ", " ", " ", " ", ".", "w", "r", "a", "p", "p", "e", "r", "\n", " ", " ", " ", " ", " ", " ", "p", " ", "h", "e", "l", "l", "o">>,
    \* html\n  body\n    .wrapper\n      p hello\n
    <<"h", "t", "m", "l", "\n", " ", " ", "b", "o", "d", "y", "\n", " ", " ", " ", " ", ".", "w", "r", "a", "p", "p", "e", "r", "\n", " ", " ", " ", " ", " ", " ", "p", " ", "h", "e", "l", "l", "o", "\n">>,
    \* img(src="x.png")
    <<"i", "m", "g", "(", "s", "r", "c", "=", "\"", "x", ".", "p", "n", "g", "\"", ")">>,
    \* img\n  p\n
    <<"i", "m", "g", "\n", " ", " ", "p", "\n">>,
    \* p\n  img t
    <<"p", "\n", " ", " ", "i", "m", "g", " ", "t">>,
    \* br\np
    <<"b", "r", "\n", "p">>,
    \* p\n\tq
    <<"p", "\n", "\t", "q">>,
    \* |
    <<"|">>,
    \* | t\n|t
    <<"|", " ", "t", "\n", "|", "t">>,
    \* a: img\nb
    <<"a", ":", " ", "i", "m", "g", "\n", "b">>,
    \* div: span: img
    <<"d", "i", "v", ":", " ", "s", "p", "a", "n", ":", " ", "i", "m", "g">>,
    \* a:b
    <<"a", ":", "b">>,
    \* a:   b:  .w
    <<"a", ":", " ", " ", " ", "b", ":", " ", " ", ".", "w">>,
    \* a:  \nb
    <<"a", ":", " ", " ", "\n", "b">>,
    \* a: | t
    <<"a", ":", " ", "|", " ", "t">>,
    \* a(b=é):  c
    <<"a", "(", "b", "=", "é", ")", ":", " ", " ", "c">>,
    \* a:
    <<"a", ":", " ">>,
    \* p\n  1 t\nq
    <<"p", "\n", " ", " ", "1", " ", "t", "\n", "q">>,
    \* p.w\né q
    <<"p", ".", "w", "\n", "é", " ", "q">>,
    \* a(%b)\np
    <<"a", "(", "%", "b", ")", "\n", "p">>,
    \* #1\np
    <<"#", "1", "\n", "p">>,
    \* p\n#x
    <<"p", "\n", "#", "x">>,
    \* p\n(a=b)
    <<"p", "\n", "(", "a", "=", "b", ")">>,
    \* p\n| t
    <<"p", "\n", "|", " ", "t">>,
    \* p\n: q
    <<"p", "\n", ":", " ", "q">>,
    \* p\n/
    <<"p", "\n", "/">>,
    \* p\n\n  q\nr\ns
    <<"p", "\n", "\n", " ", " ", "q", "\n", "r", "\n", "s">>,
    \* (a=b)\np
    <<"(", "a", "=", "b", ")", "\n", "p">>,
    \* : p
    <<":", " ", "p">>,
    \* a:\nb
    <<"a", ":", "\n", "b">>,
    \* a:/b
    <<"a", ":", "/", "b">>,
    \* a: (b) c
    <<"a", ":", " ", "(", "b", ")", " ", "c">>,
    \* p\n  q\n\n  r
    <<"p", "\n", " ", " ", "q", "\n", "\n", " ", " ", "r">>,
    \* p\n\n  q
    <<"p", "\n", "\n", " ", " ", "q">>,
    \* a(b=
    <<"a", "(", "b", "=">>,
    \* p\n\n  q\nr
    <<"p", "\n", "\n", " ", " ", "q", "\n", "r">>,
    \* p\n    q\n  .w\n  p\np
    <<"p", "\n", " ", " ", " ", " ", "q", "\n", " ", " ", ".", "w", "\n", " ", " ", "p", "\n", "p">>}

MaxAttrs == 2

\* one attribute as written: a bare name, name=v, name="v" or name='v'
AttrItems == {
    [name |-> <<"b">>, form |-> "bare", value |-> <<>>],
    [name |-> <<"d", "-", "e">>, form |-> "bare", value |-> <<>>],
    [name |-> <<"b">>, form |-> "plain", value |-> <<"c">>],
    [name |-> <<"d">>, form |-> "plain", value |-> <<"c", "'", "=", "é">>],
    [name |-> <<"b">>, form |-> "double", value |-> <<>>],
    [name |-> <<"d">>, form |-> "double", value |-> <<"e", "'", ")", " ", "f">>],
    [name |-> <<"g">>, form |-> "single", value |-> <<"\"", "f">>]}

AttrText(a) ==
    CASE a.form = "bare" -> a.name
      [] a.form = "plain" -> a.name \o <<"=">> \o a.value
      [] a.form = "double" -> a.name \o <<"=", "\"">> \o a.value \o <<"\"">>
      [] a.form = "single" -> a.name \o <<"=", "'">> \o a.value \o <<"'">>

AttrLists == UNION {[1..n -> AttrItems] : n \in 1..MaxAttrs}

AttrSeparators == {<<" ">>, <<"\n", " ">>}

\* a(<attributes separated by sep>) with or without whitespace before ')'
AttrSource(f, sep, trail) ==
    <<"a", "(">> \o Join([k \in 1..Len(f) |-> AttrText(f[k])], Len(f), sep)
    \o trail \o <<")">>

AttrSources ==
    {AttrSource(f, sep, trail) :
        f \in AttrLists, sep \in AttrSeparators, trail \in {<<>>, <<" ">>}}

Sources == LineSources \cup ChainSources \cup SpecialSources \cup AttrSources

-----------------------------------------------------------------------------
(* Specification *)

\* Lexer::new(src)
Init ==
    /\ src \in Sources
    /\ overflow_checks \in BOOLEAN
    /\ pc = "start"
    /\ p = 0
    /\ pos = 0
    /\ indents = <<>>
    /\ tokens = <<>>
    /\ stop = ""
    /\ lineLevel = 0
    /\ popped = <<>>
    /\ nodes = <<>>
    /\ index = 0
    /\ events = <<>>
    /\ html = <<>>
    /\ calls = [tokenize |-> 1, parse |-> 1]
    /\ earlier = [tokens |-> <<>>, nodes |-> <<>>]

Next ==
    \/ TokenizeStart
    \/ LexEof
    \/ LexTag
    \/ LexNewLine
    \/ LexText
    \/ LexId
    \/ LexClass
    \/ LexAttrs
    \/ LexSlash
    \/ LexColon
    \/ LexUnexpected
    \/ Parse
    \/ Render

Spec == Init /\ [][Next]_vars

\* the same, with tokenize and parse called again on the same objects
NextAgain ==
    \/ TokenizeStart
    \/ LexEof
    \/ LexTag
    \/ LexNewLine
    \/ LexText
    \/ LexId
    \/ LexClass
    \/ LexAttrs
    \/ LexSlash
    \/ LexColon
    \/ LexUnexpected
    \/ Parse
    \/ Render
    \/ TokenizeAgain
    \/ ParseAgain

SpecAgain == Init /\ [][NextAgain]_vars

-----------------------------------------------------------------------------
(* Properties *)

\* tokenize has returned to its caller
Returned == pc \in {"lexed", "parsed", "rendered"}

Parsed == pc \in {"parsed", "rendered"}

Count(toks, ty) == Cardinality({k \in 1..Len(toks) : toks[k].ty = ty})

\* the lines of a source, split at its line breaks
RECURSIVE SplitLines(_)
SplitLines(s) ==
    IF \A k \in 1..Len(s) : s[k] # "\n" THEN <<s>>
    ELSE LET j == CHOOSE k \in 1..Len(s) :
                      s[k] = "\n" /\ \A i \in 1..(k - 1) : s[i] # "\n"
         IN  <<SubSeq(s, 1, j - 1)>> \o SplitLines(SubSeq(s, j + 1, Len(s)))

LeadingSpaces(line) ==
    CHOOSE n \in 0..Len(line) :
        /\ \A k \in 1..n : line[k] = " "
        /\ (n = Len(line) \/ line[n + 1] # " ")

\* every line holds something after its leading spaces; the source may end
\* with a final line break
SpaceIndentedLines ==
    LET ls == SplitLines(src)
    IN  \A k \in 1..Len(ls) :
            \/ LeadingSpaces(ls[k]) < Len(ls[k])
            \/ (k = Len(ls) /\ k > 1 /\ ls[k] = <<>>)

\* C1: when tokenize has scanned a template of space-indented lines (with or
\* without a final line break) to the end of input, the tokens hold as many
\* Indent as Outdent tokens.
C1_IndentOutdentBalanced ==
    (Returned /\ stop = "eof" /\ SpaceIndentedLines) =>
        Count(tokens, "Indent") = Count(tokens, "Outdent")

\* the level stack obtained by replaying Indent and Outdent tokens from [0]:
\* an Indent pushes the level it carries (its length), an Outdent pops
RECURSIVE Replay(_)
Replay(toks) ==
    IF toks = <<>> THEN <<0>>
    ELSE LET s == Replay(SubSeq(toks, 1, Len(toks) - 1))
             t == toks[Len(toks)]
         IN  IF t.ty = "Indent" THEN Append(s, t.end - t.start)
             ELSE IF t.ty = "Outdent" THEN SubSeq(s, 1, Len(s) - 1)
             ELSE s

StrictlyIncreasing(s) == \A i \in 1..(Len(s) - 1) : s[i] < s[i + 1]

\* C2: replayed against a level stack that starts as [0], every prefix of the
\* emitted tokens leaves a stack that is not empty, has 0 at the bottom and is
\* strictly increasing (so each Indent pushed a level above the top and no
\* prefix holds more Outdent than Indent tokens); the replayed stack is the
\* lexer's own stack, so one Outdent was emitted per popped level; after a
\* line start the top is <= the line's leading-space count and every level
\* popped for it was greater than that count.
C2_LevelStackDiscipline ==
    /\ \A k \in 0..Len(tokens) :
           LET s == Replay(SubSeq(tokens, 1, k))
           IN  /\ Len(s) >= 1
               /\ s[1] = 0
               /\ StrictlyIncreasing(s)
               /\ Count(SubSeq(tokens, 1, k), "Outdent")
                      <= Count(SubSeq(tokens, 1, k), "Indent")
    /\ (pc \in {"scan", "lexed", "parsed", "rendered"}) =>
           /\ Replay(tokens) = indents
           /\ indents[Len(indents)] <= lineLevel
           /\ \A i \in 1..Len(popped) : popped[i] > lineLevel

\* C2 witness: a line start that closed two levels at once, after which
\* another level was opened
C2_Witness ==
    /\ pc = "lexed"
    /\ \E k \in 1..(Len(tokens) - 2) :
           /\ tokens[k].ty = "Outdent"
           /\ tokens[k + 1].ty = "Outdent"
    /\ Count(tokens, "Indent") >= 2
    /\ Replay(tokens) = indents

\* the source holds an attribute value opened by a quote with no later
\* occurrence of that quote
UnclosedQuote ==
    \E i \in 1..(Len(src) - 1) :
        /\ src[i] = "="
        /\ src[i + 1] \in Quotes
        /\ \A k \in (i + 2)..Len(src) : src[k] # src[i + 1]

\* C3: on a source with a quoted attribute value that is never closed,
\* tokenize returns normally (it does not abort), with the tokens produced
\* before the unfinished value.
C3_UnclosedQuoteReturns ==
    (UnclosedQuote /\ pc # "start") =>
        /\ pc # "panic"
        /\ stop \in {"", "quote"}
        /\ \A k \in 1..Len(tokens) : tokens[k].ty # "Attr" \/ tokens[k].end <= p

\* the positions of the Indent tokens still open after the first k tokens,
\* in the lexer's level-stack discipline
RECURSIVE OpenIndents(_, _)
OpenIndents(toks, k) ==
    IF k = 0 THEN <<>>
    ELSE LET s == OpenIndents(toks, k - 1)
         IN  IF toks[k].ty = "Indent" THEN Append(s, k)
             ELSE IF toks[k].ty = "Outdent" THEN SubSeq(s, 1, Len(s) - 1)
             ELSE s

\* the Indent paired with the Outdent at position j (0 if there is none)
MatchingIndent(toks, j) ==
    LET s == OpenIndents(toks, j - 1)
    IN  IF s = <<>> THEN 0 ELSE s[Len(s)]

\* the template begins with a tag
StartsWithTag == Len(src) >= 1 /\ IsAsciiAlphabetic(src[1])

\* C4: in the parse of a template that begins with a tag and closes a level,
\* every Indent is taken by create_element, which opens the parse() frame of
\* that Indent, and every Outdent is taken by parse() running in the frame
\* opened by its matching Indent, never by the top-level frame.
C4_OutdentEndsItsOwnFrame ==
    (Parsed /\ StartsWithTag /\ Count(tokens, "Outdent") >= 1) =>
        /\ \A i \in 1..Len(events) :
               LET e == events[i]
                   t == tokens[e.tok]
               IN  /\ t.ty = "Indent" => e.fn = "create_element"
                   /\ t.ty = "Outdent" =>
                          /\ e.fn = "parse"
                          /\ e.frame # 0
                          /\ e.frame = MatchingIndent(tokens, e.tok)
        /\ \A k \in 1..Len(tokens) :
               tokens[k].ty \in {"Indent", "Outdent"} =>
                   \E i \in 1..Len(events) : events[i].tok = k

\* Tag, Colon, Tag, ..., Tag
IsColonChain(toks) ==
    /\ Len(toks) % 2 = 1
    /\ \A k \in 1..Len(toks) :
           toks[k].ty = (IF k % 2 = 1 THEN "Tag" ELSE "Colon")

\* the element named by the first name, holding the tree of the other names
RECURSIVE ChainTree(_)
ChainTree(names) ==
    [kind |-> "Element", name |-> Head(names), attrs |-> <<>>, body |-> <<>>,
     children |-> IF Len(names) = 1 THEN <<>> ELSE <<ChainTree(Tail(names))>>]

ChainNamesOf(toks) == [i \in 1..((Len(toks) + 1) \div 2) |-> toks[2 * i - 1].s]

\* C5: the tokens Tag(t1), Colon, ..., Tag(tn) parse to the single node
\* Element(t1), in which each Element(ti) holds exactly the one child
\* Element(t(i+1)) and Element(tn) holds none.
C5_ColonChainNests ==
    (Parsed /\ IsColonChain(tokens)) => nodes = <<ChainTree(ChainNamesOf(tokens))>>

\* C5 witness: a parsed chain of three tags
C5_Witness ==
    /\ pc = "parsed"
    /\ IsColonChain(tokens)
    /\ Len(tokens) = 5
    /\ Len(nodes) = 1
    /\ Len(nodes[1].children) = 1

\* C6: tokens that start with Id(x) or Class(x) parse to the nodes of
\* Tag(div) followed by the same tokens: same name, same attribute pairs in
\* the same order, same children.
C6_LeadingSelectorIsDiv ==
    (Parsed /\ Len(tokens) >= 1 /\ tokens[1].ty \in {"Id", "Class"}) =>
        nodes = ParseTokens(<<Tok("Tag", NameDiv, <<>>, 0, 0)>> \o tokens).nodes

\* one line of a template: its indentation, its selector and its inline text
LineParts(line) ==
    LET n == LeadingSpaces(line)
        rest == SubSeq(line, n + 1, Len(line))
        sp == IF \A k \in 1..Len(rest) : rest[k] # " " THEN 0
              ELSE CHOOSE k \in 1..Len(rest) :
                       rest[k] = " " /\ \A i \in 1..(k - 1) : rest[i] # " "
    IN  [indent |-> n,
         sel |-> IF sp = 0 THEN rest ELSE SubSeq(rest, 1, sp - 1),
         hasText |-> sp # 0,
         text |-> IF sp = 0 THEN <<>> ELSE SubSeq(rest, sp + 1, Len(rest))]

IsTagSel(s) ==
    /\ Len(s) >= 1
    /\ IsAsciiAlphabetic(s[1])
    /\ \A k \in 1..Len(s) : s[k] \in NameChars

IsClassSel(s) ==
    /\ Len(s) >= 2
    /\ s[1] = "."
    /\ \A k \in 2..Len(s) : s[k] \in NameChars

\* the lines of the source without the empty line after a final line break
TemplateLines ==
    LET ls == SplitLines(src)
    IN  IF Len(ls) > 1 /\ ls[Len(ls)] = <<>> THEN SubSeq(ls, 1, Len(ls) - 1) ELSE ls

\* line k is indented 2*(k-1) spaces and holds one tag or class selector;
\* only the last line may carry inline text
IsStair(ls) ==
    \A k \in 1..Len(ls) :
        LET l == LineParts(ls[k])
        IN  /\ l.indent = 2 * (k - 1)
            /\ IsTagSel(l.sel) \/ IsClassSel(l.sel)
            /\ l.hasText => (k = Len(ls) /\ l.text # <<>>)

StairName(l) == IF IsClassSel(l.sel) THEN NameDiv ELSE l.sel

StairOpen(l) ==
    IF IsClassSel(l.sel)
    THEN <<"<", "d", "i", "v", " ", "c", "l", "a", "s", "s", "=", "\"">>
         \o SubSeq(l.sel, 2, Len(l.sel)) \o <<"\"", ">">>
    ELSE <<"<">> \o l.sel \o <<">">>

StairClose(l) == <<"<", "/">> \o StairName(l) \o <<">">>

\* the opening tags of lines k..n, one per line
RECURSIVE StairOpenings(_, _)
StairOpenings(ls, k) ==
    IF k > Len(ls) THEN <<>>
    ELSE Spaces(2 * (k - 1)) \o StairOpen(LineParts(ls[k])) \o <<"\n">>
         \o StairOpenings(ls, k + 1)

\* the closing tags of the non-void elements of lines k..1, one per line
RECURSIVE StairClosings(_, _)
StairClosings(ls, k) ==
    IF k = 0 THEN <<>>
    ELSE (IF StairName(LineParts(ls[k])) \in VoidElements THEN <<>>
          ELSE Spaces(2 * (k - 1)) \o StairClose(LineParts(ls[k])) \o <<"\n">>)
         \o StairClosings(ls, k - 1)

StairText(ls) ==
    LET l == LineParts(ls[Len(ls)])
    IN  IF l.hasText THEN Spaces(2 * Len(ls)) \o l.text \o <<"\n">> ELSE <<>>

\* every opening and closing tag on its own line
StairOutput(ls) ==
    StairOpenings(ls, 1) \o StairText(ls) \o StairClosings(ls, Len(ls))

ExampleTemplate ==
    <<"h", "t", "m", "l", "\n", " ", " ", "b", "o", "d", "y", "\n", " ", " ",
      " ", " ", ".", "w", "r", "a", "p", "p", "e", "r", "\n", " ", " ", " ",
      " ", " ", " ", "p", " ", "h", "e", "l", "l", "o">>

ExampleHtml ==
    <<"<", "h", "t", "m", "l", ">", "\n", " ", " ", "<", "b", "o", "d", "y",
      ">", "\n", " ", " ", " ", " ", "<", "d", "i", "v", " ", "c", "l", "a",
      "s", "s", "=", "\"", "w", "r", "a", "p", "p", "e", "r", "\"", ">",
      "\n", " ", " ", " ", " ", " ", " ", "<", "p", ">", "\n", " ", " ", " ",
      " ", " ", " ", " ", " ", "h", "e", "l", "l", "o", "\n", " ", " ", " ",
      " ", " ", " ", "<", "/", "p", ">", "\n", " ", " ", " ", " ", "<", "/",
      "d", "i", "v", ">", "\n", " ", " ", "<", "/", "b", "o", "d", "y", ">",
      "\n", "<", "/", "h", "t", "m", "l", ">", "\n">>

\* C7 as claimed: a staircase template (its first line not a doctype line)
\* renders with the opening and the
\* closing tag of each element on a line of its own, prefixed by 2*(k-1)
\* spaces, the inline text one level deeper, the closing tags of the
\* non-void elements in reverse order.
C7_StairRendersOneTagPerLine ==
    (pc = "rendered" /\ IsStair(TemplateLines) /\ ~IsDoctype(FirstLine)) =>
        html = StairOutput(TemplateLines)

\* the last line holds a non-void tag without inline text
BareLastTag(ls) ==
    LET l == LineParts(ls[Len(ls)])
    IN  IsTagSel(l.sel) /\ ~l.hasText /\ l.sel \notin VoidElements

\* no void tag above the last line and no inline text on a void last line
StairOfElements(ls) ==
    /\ IsStair(ls)
    /\ ~IsDoctype(FirstLine)
    /\ \A k \in 1..Len(ls) :
           LET l == LineParts(ls[k])
           IN  l.sel \in VoidElements => (k = Len(ls) /\ ~l.hasText)

\* a bare last tag has its opening and closing tag on one line
StairOutputBareLast(ls) ==
    LET n == Len(ls)
        l == LineParts(ls[n])
    IN  StairOpenings(SubSeq(ls, 1, n - 1), 1)
        \o Spaces(2 * (n - 1)) \o StairOpen(l)
        \o Spaces(2 * (n - 1)) \o StairClose(l) \o <<"\n">>
        \o StairClosings(ls, n - 1)

\* C7 amended: for a staircase template with no void tag above the last line
\* and no inline text on a void last line, the output is one tag per line as
\* claimed, except that a
\* last line holding a bare non-void tag renders as the single line
\* prefix <name> prefix </name>; the html / body / .wrapper / p hello example
\* renders as stated.
C7_StairRenders ==
    /\ (pc = "rendered" /\ StairOfElements(TemplateLines)) =>
           html = IF BareLastTag(TemplateLines)
                  THEN StairOutputBareLast(TemplateLines)
                  ELSE StairOutput(TemplateLines)
    /\ (pc = "rendered" /\ src = ExampleTemplate) => html = ExampleHtml

\* C7 witness: the rendered example of the spec, a staircase of four lines
C7_Witness ==
    /\ pc = "rendered"
    /\ src = ExampleTemplate
    /\ StairOfElements(TemplateLines)
    /\ Len(TemplateLines) = 4
    /\ html # <<>>

\* C8: a void element renders as one line: its opening tag with the
\* attributes and one line break, whatever children it holds.
C8_VoidElementIsOneLine ==
    (pc = "rendered" /\ Len(nodes) = 1 /\ nodes[1].kind = "Element"
        /\ IsVoid(nodes[1].name)) =>
        html = OpenTag(nodes[1]) \o <<"\n">>

\* the first line is doctype, one space, and a name
IsDoctypeForm(line) ==
    /\ StartsWith(line, <<"d", "o", "c", "t", "y", "p", "e", " ">>)
    /\ Len(line) > 8
    /\ \A k \in 9..Len(line) : line[k] \in NameChars

\* C9: a first line doctype <name> gives as first token Doctype(name) with
\* the span of that line, and no other token is scanned from that line.
C9_DoctypeCarriesName ==
    (Returned /\ IsDoctypeForm(FirstLine)) =>
        /\ Len(tokens) >= 1
        /\ tokens[1] = Tok("Doctype", SubSeq(FirstLine, 9, Len(FirstLine)), <<>>,
                           0, StrLen(FirstLine))
        /\ \A k \in 2..Len(tokens) :
               tokens[k].ty \in {"Tag", "Text"} => tokens[k].start >= StrLen(FirstLine)

\* the UTF-8 bytes of a String, each as <<char, position in the char>>
RECURSIVE Bytes(_)
Bytes(s) ==
    IF s = <<>> THEN <<>>
    ELSE [i \in 1..ByteLen(Head(s)) |-> <<Head(s), i>>] \o Bytes(Tail(s))

\* the bytes [start, end) of the source are the text of the token
SpanIsTokenText(t) ==
    LET b == SubSeq(Bytes(src), t.start + 1, t.end)
    IN  CASE t.ty \in {"Tag"} -> b = Bytes(t.s)
          [] t.ty = "Id" -> b = Bytes(<<"#">> \o t.s)
          [] t.ty = "Class" -> b = Bytes(<<".">> \o t.s)
          [] t.ty = "NewLine" -> b = Bytes(<<"\n">>)
          [] t.ty = "Colon" -> b = Bytes(<<":">>)
          [] t.ty = "Slash" -> b = Bytes(<<"/">>)
          [] t.ty = "Indent" -> \A i \in 1..Len(b) : b[i] = <<" ", 1>>
          [] t.ty = "Text" ->
                 /\ Len(b) > Len(Bytes(t.s))
                 /\ SubSeq(b, Len(b) - Len(Bytes(t.s)) + 1, Len(b)) = Bytes(t.s)
          [] t.ty = "Attr" -> StartsWith(b, Bytes(t.s))
          [] OTHER -> TRUE

\* C10: in the scan of a template of space-indented lines, every emitted
\* token carries the byte range of the source text it was
\* scanned from: 0 <= start <= end <= byte length of the source, the bytes in
\* the range are the token's text, and successive tokens do not overlap and
\* have non-decreasing starts.
C10_SpansAreByteRanges ==
    (pc # "panic" /\ SpaceIndentedLines) =>
        /\ \A k \in 1..Len(tokens) :
               /\ 0 <= tokens[k].start
               /\ tokens[k].start <= tokens[k].end
               /\ tokens[k].end <= StrLen(src)
               /\ SpanIsTokenText(tokens[k])
        /\ \A k \in 1..(Len(tokens) - 1) : tokens[k].end <= tokens[k + 1].start

\* C11: in a parenthesised attribute list every attribute gives exactly one
\* Attr(name, value) token, in source order: a bare name has the empty value,
\* name=v the run of chars up to whitespace or ')', a quoted value the chars
\* between the opening quote and the next same quote (the other quote kept);
\* whitespace and the closing ')' give no token.
C11_AttrTokens ==
    \A f \in AttrLists, sep \in AttrSeparators, trail \in {<<>>, <<" ">>} :
        (Returned /\ src = AttrSource(f, sep, trail)) =>
            /\ Len(tokens) = Len(f) + 1
            /\ tokens[1].ty = "Tag"
            /\ \A k \in 1..Len(f) :
                   /\ tokens[k + 1].ty = "Attr"
                   /\ tokens[k + 1].s = f[k].name
                   /\ tokens[k + 1].v = f[k].value

C11_Witness ==
    /\ Returned
    /\ \E f \in AttrLists :
           /\ Len(f) = 2
           /\ f[1].form = "double" /\ f[1].value # <<>>
           /\ f[2].form = "bare"
           /\ src = AttrSource(f, <<"\n", " ">>, <<" ">>)
           /\ Len(tokens) = 3
           /\ tokens[2].v = <<"e", "'", ")", " ", "f">>
           /\ tokens[3].v = <<>>
\* the number of chars before the first non-space char at or after char
\* offset i of the source
RECURSIVE SkipSpaces(_)
SkipSpaces(i) == IF i < Len(src) /\ src[i + 1] = " " THEN SkipSpaces(i + 1) ELSE i

\* C12: a ':' gives one Colon token of length 1 at the position of the ':';
\* the ':' and the spaces that follow it are consumed with it, so no Text
\* token starts in them and the next token starts at the first non-space
\* char after the colon (div: span: img lexes to Tag Colon Tag Colon Tag).
C12_ColonTakesItsSpaces ==
    /\ \A k \in 1..Len(tokens) :
           tokens[k].ty = "Colon" =>
               LET t == tokens[k]
                   n == SkipSpaces(t.start + 1)
               IN  /\ t.start < Len(src) /\ src[t.start + 1] = ":"
                   /\ t.end = t.start + 1
                   /\ (k > 1 /\ tokens[k - 1].ty = "Colon") =>
                          tokens[k - 1].start < t.start
                   /\ p >= n
                   /\ k < Len(tokens) =>
                          /\ tokens[k + 1].ty # "Outdent" => tokens[k + 1].start >= n
                          /\ tokens[k + 1].ty = "Text" => tokens[k + 1].start = n
                   /\ (n < Len(src) /\ IsAsciiAlphabetic(src[n + 1])
                          /\ (k < Len(tokens) \/ pc # "scan")) =>
                          /\ Len(tokens) > k
                          /\ tokens[k + 1].ty = "Tag"
                          /\ tokens[k + 1].start = n
    /\ (\A k \in 1..Len(tokens) : tokens[k].ty \notin {"Text", "Attr", "Doctype"}) =>
           Count(tokens, "Colon") = Cardinality({i \in 1..p : src[i] = ":"})
    /\ (Returned /\ src = <<"d", "i", "v", ":", " ", "s", "p", "a", "n", ":", " ",
                            "i", "m", "g">>) =>
           [k \in 1..Len(tokens) |-> <<tokens[k].ty, tokens[k].s>>] =
               <<<<"Tag", <<"d", "i", "v">>>>, <<"Colon", <<>>>>,
                 <<"Tag", <<"s", "p", "a", "n">>>>, <<"Colon", <<>>>>,
                 <<"Tag", <<"i", "m", "g">>>>>>

C12_Witness ==
    /\ Returned
    /\ src = <<"a", ":", " ", " ", " ", "b", ":", " ", " ", ".", "w">>
    /\ Len(tokens) = 5
    /\ tokens[2].ty = "Colon" /\ tokens[2].start = 1
    /\ tokens[3].ty = "Tag" /\ tokens[3].start = 5
    /\ tokens[5].ty = "Class" /\ tokens[5].start = 9
\* the number of chars before the end of the line that holds char offset i
RECURSIVE LineEnd(_)
LineEnd(i) == IF i < Len(src) /\ src[i + 1] # "\n" THEN LineEnd(i + 1) ELSE i

\* the number of chars before the text body when the marker is at offset i
AfterMarker(i) ==
    IF src[i + 1] = "|" /\ i + 1 < Len(src) /\ src[i + 2] = " " THEN i + 2 ELSE i + 1

\* C13: whenever the lexer dispatches on a space or a '|' it consumes the
\* marker ('|' and one following space when present, else the one leading
\* char, also when '|' is the last char of the input) and the rest of the
\* line; a non-empty rest becomes the body of one Text token; the line break
\* is left for the next step, and scanning goes on.
C13_TextTakesRestOfLine ==
    [][(pc = "scan" /\ Peek(p) \in {" ", "|"}) =>
           LET m == AfterMarker(p)
               e == LineEnd(m)
           IN  /\ pc' = "scan"
               /\ p' = e
               /\ Peek(e) \in {"\n", NoChar}
               /\ IF e > m
                  THEN /\ Len(tokens') = Len(tokens) + 1
                       /\ SubSeq(tokens', 1, Len(tokens)) = tokens
                       /\ tokens'[Len(tokens')].ty = "Text"
                       /\ tokens'[Len(tokens')].s = SubSeq(src, m + 1, e)
                  ELSE tokens' = tokens]_vars
\* at most n iterations of the attribute-list loop from iterator position i
RECURSIVE AttrIterations(_, _)
AttrIterations(i, n) ==
    LET r == AttrIteration(i)
    IN  IF n = 0 \/ r.exit # "continue" THEN r ELSE AttrIterations(r.p, n - 1)

\* every iteration of the attribute-list loop that goes on has consumed a char
AttrLoopProgress ==
    \A i \in 0..Len(src) :
        LET r == AttrIteration(i)
        IN  /\ r.p <= Len(src)
            /\ r.exit = "continue" => r.p > i
            /\ r.p >= i

\* the attribute list is scanned by these iterations
AttrLoopIsIterations ==
    (pc = "scan" /\ Peek(p) = "(") =>
        LET r == AttrLoop(p + 1, tokens)
            s == AttrIterations(p + 1, Len(src))
        IN  r.p = s.p /\ r.exit = s.exit

\* C14: tokenize terminates on every source: each iteration of the main loop
\* and of the attribute-list loop either stops scanning or consumes at least
\* one char, and the scan position never passes the end of the input, so the
\* scan ends after at most Len(src) + 1 iterations; an unterminated attribute
\* list or quoted value stops the scan.
C14_TokenizeTerminates ==
    /\ [](p <= Len(src) /\ AttrLoopProgress /\ AttrLoopIsIterations)
    /\ [][pc = "scan" => (pc' # "scan" \/ p' > p)]_vars
    /\ []((pc = "scan" /\ Peek(p) = "(" /\ AttrLoop(p + 1, tokens).exit # "break")
              => ENABLED LexAttrs)
    /\ [][(pc = "scan" /\ Peek(p) = "(" /\ AttrLoop(p + 1, tokens).exit # "break")
              => pc' \in {"lexed", "panic"}]_vars

C14_Witness ==
    /\ src = <<"a", "(", "b">>
    /\ pc = "lexed"
    /\ stop = "paren"
    /\ p = Len(src)
\* the cursor after at most n iterations of the loop of parse() from cursor i
RECURSIVE ParseIterations(_, _, _)
ParseIterations(toks, i, n) ==
    LET r == ParseIteration(toks, i, 0)
    IN  IF n = 0 \/ r.exit THEN r.index ELSE ParseIterations(toks, r.index, n - 1)

\* C15: during parse() the cursor never decreases and never exceeds the
\* number of tokens; only next() moves it, by exactly 1, so every token is
\* consumed at most once; every iteration of the loops of parse() and
\* create_element() leaves the loop or consumes at least one token.
C15_CursorAdvancesByOne ==
    Parsed =>
        /\ index <= Len(tokens)
        /\ index = Len(events)
        /\ \A k \in 1..Len(events) : events[k].tok = k
        /\ \A i \in 0..Len(tokens) :
               LET a == ParseIteration(tokens, i, 0)
                   b == CreateIteration(tokens, i, 0)
               IN  /\ a.index <= Len(tokens) /\ b.index <= Len(tokens)
                   /\ a.index >= i /\ b.index >= i
                   /\ ~a.exit => a.index > i
                   /\ ~b.exit => b.index > i
        /\ ParseIterations(tokens, 0, Len(tokens)) = index

C15_Witness ==
    /\ Parsed
    /\ index = Len(tokens)
    /\ Len(tokens) >= 8
    /\ \E k \in 1..Len(events) :
           events[k].fn = "create_element" /\ tokens[events[k].tok].ty = "Indent"
    /\ \E k \in 1..Len(events) :
           events[k].fn = "parse" /\ tokens[events[k].tok].ty = "Outdent"
\* a node list without its Empty and Comment nodes, at every depth
RECURSIVE StripSkipped(_)
StripSkipped(ns) ==
    IF ns = <<>> THEN <<>>
    ELSE LET n == Head(ns)
             rest == StripSkipped(Tail(ns))
         IN  IF n.kind \in {"Empty", "Comment"} THEN rest
             ELSE IF n.kind = "Element"
             THEN <<[n EXCEPT !.children = StripSkipped(n.children)]>> \o rest
             ELSE <<n>> \o rest

\* C16: the renderer skips Empty and Comment nodes: removing them all, at
\* top level and among the children of every element, leaves the rendered
\* string unchanged.
C16_EmptyNodesAreSkipped ==
    pc = "rendered" => html = RenderNodes(StripSkipped(nodes))
\* a char on which the main loop of tokenize starts a token or a line
StartsToken(c) ==
    IsAsciiAlphabetic(c) \/ c \in {"\n", " ", "|", "#", ".", "(", "/", ":"}

\* C17: when the main loop meets a char that starts no token (a tab at line
\* start, a digit, a non-ASCII letter) tokenize stops there: it returns the
\* tokens it has for the input before that char, all of them starting before
\* it, and no token is made for that char or for anything after it.
C17_UnexpectedCharStops ==
    /\ [][(pc = "scan" /\ Peek(p) # NoChar /\ ~StartsToken(Peek(p))) =>
              (pc' = "lexed" /\ stop' = "unexpected" /\ tokens' = tokens /\ p' = p)]_vars
    /\ [][pc \notin {"start", "scan"} => tokens' = tokens]_vars
    /\ []((Returned /\ stop = "unexpected") =>
              /\ p < Len(src)
              /\ ~StartsToken(Peek(p))
              /\ \A k \in 1..Len(tokens) :
                     tokens[k].ty # "Outdent" => tokens[k].start < p)

C17_Witness ==
    /\ Returned
    /\ stop = "unexpected"
    /\ src = <<"p", "\n", " ", " ", "1", " ", "t", "\n", "q">>
    /\ p = 4
    /\ Len(tokens) = 3
    /\ tokens[3].ty = "Indent"
\* C18: invocations are repeatable: after tokenize() is called again on the
\* same Lexer, get_tokens() is the token sequence of the first call, spans
\* included, and parse() called again on the same Parser returns the same
\* nodes.
C18_CallsAreRepeatable ==
    /\ (calls.tokenize = 2 /\ Returned) => tokens = earlier.tokens
    /\ (calls.parse = 2 /\ Parsed) => nodes = earlier.nodes
\* token i is a Tag at the start of a line
LineStartTag(toks, i) ==
    /\ toks[i].ty = "Tag"
    /\ (i = 1 \/ toks[i - 1].ty \in {"NewLine", "Indent", "Outdent", "Doctype"})

\* tokens i and j are the Tags that start two consecutive lines of the same
\* indentation
TagLinesSameLevel(toks, i, j) ==
    /\ i + 1 < j
    /\ LineStartTag(toks, i)
    /\ toks[j].ty = "Tag"
    /\ toks[j - 1].ty = "NewLine"
    /\ \A k \in (i + 1)..(j - 2) : toks[k].ty \notin {"NewLine", "Indent", "Outdent"}

\* tokens i and j became sibling nodes: both were taken by parse_one for the
\* same call of parse()
SiblingNodes(i, j) ==
    \E a, b \in 1..Len(events) :
        /\ events[a].tok = i /\ events[b].tok = j
        /\ events[a].fn = "parse_one" /\ events[b].fn = "parse_one"
        /\ events[a].frame = events[b].frame

\* the type of token k, "None" past the end
TypeAt(toks, k) == IF k <= Len(toks) THEN toks[k].ty ELSE "None"

\* C19: in create_element, after a NewLine the element is finished when the
\* next token is NewLine, Tag or absent; an Id, Class or Attr that follows
\* the NewLine goes to the element's attributes, a Text becomes its child
\* and an Indent opens its child block.  So two consecutive lines of the
\* same indentation that both start with a Tag parse to two sibling elements.
C19_NewLineInCreateElement ==
    Parsed =>
        /\ (Len(tokens) >= 2 /\ tokens[1].ty = "Tag" /\ tokens[2].ty = "NewLine") =>
               LET x == TypeAt(tokens, 3)
                   el == nodes[1]
               IN  /\ el.kind = "Element" /\ el.name = tokens[1].s
                   /\ x \in {"NewLine", "Tag", "None"} => el = NewElement(tokens[1].s)
                   /\ x = "Id" => el.attrs[1] = <<NameId, tokens[3].s>>
                   /\ x = "Class" => el.attrs[1] = <<NameClass, tokens[3].s>>
                   /\ x = "Attr" => el.attrs[1] = <<tokens[3].s, tokens[3].v>>
                   /\ x = "Text" => el.children[1] = TextNode(tokens[3].s)
                   /\ (x = "Indent" /\ TypeAt(tokens, 4) = "Tag") =>
                          /\ Len(el.children) >= 1
                          /\ el.children[1].kind = "Element"
                          /\ el.children[1].name = tokens[4].s
        /\ \A i, j \in 1..Len(tokens) :
               TagLinesSameLevel(tokens, i, j) => SiblingNodes(i, j)
\* the number of Empty nodes of a node list, at every depth
RECURSIVE CountEmpty(_)
CountEmpty(ns) ==
    IF ns = <<>> THEN 0
    ELSE (IF Head(ns).kind = "Empty" THEN 1 ELSE 0)
         + CountEmpty(Head(ns).children) + CountEmpty(Tail(ns))

\* the calls of parse_one that took a token other than Text, Tag, Id, Class
OtherTokenCalls ==
    {k \in 1..Len(events) :
        /\ events[k].fn = "parse_one"
        /\ tokens[events[k].tok].ty \notin {"Text", "Tag", "Id", "Class"}}

\* the calls of parse_one made by a Colon that is the last token
NoTokenCalls ==
    {k \in 1..Len(events) :
        /\ events[k].fn = "create_element"
        /\ events[k].tok = Len(tokens)
        /\ tokens[events[k].tok].ty = "Colon"}

\* C20: parse_one called on a token that is not Text, Tag, Id or Class
\* consumes exactly that token and returns Node::Empty; the parse is not
\* aborted: the enclosing loop appends the Empty node and goes on with the
\* following token.
C20_OtherTokenGivesEmpty ==
    Parsed =>
        /\ CountEmpty(nodes) = Cardinality(OtherTokenCalls) + Cardinality(NoTokenCalls)
        /\ \A k \in OtherTokenCalls :
               /\ tokens[events[k].tok].ty \in
                      {"Doctype", "Attr", "Colon", "Indent", "NewLine", "Slash", "Outdent"}
               /\ events[k].tok < Len(tokens) =>
                      /\ k < Len(events)
                      /\ events[k + 1].tok = events[k].tok + 1

C20_Witness ==
    /\ Parsed
    /\ Len(nodes) = 3
    /\ nodes[1].kind = "Element"
    /\ nodes[2] = EmptyNode
    /\ nodes[3].kind = "Element"
    /\ \E k \in OtherTokenCalls : tokens[events[k].tok].ty = "Indent"
\* the reference serialisation: ` name="value"` for each attribute, in order
RefAttrs(attrs) ==
    LET item(k) == <<" ">> \o attrs[k][1] \o <<"=", "\"">> \o attrs[k][2] \o <<"\"">>
    IN  Join([k \in 1..Len(attrs) |-> item(k)], Len(attrs), <<>>)

RECURSIVE RefElement(_, _)
RECURSIVE RefChildren(_, _)

\* the reference serialisation of an element at depth d
RefElement(e, d) ==
    LET HasBreak == e.children # <<>> \/ e.attrs # <<>>
        head == Spaces(2 * d) \o <<"<">> \o e.name \o RefAttrs(e.attrs) \o <<">">>
                \o (IF HasBreak THEN <<"\n">> ELSE <<>>)
    IN  IF e.name \in VoidElements
        THEN head \o <<"\n">>
        ELSE head \o RefChildren(e.children, d + 1)
             \o Spaces(2 * d) \o <<"<", "/">> \o e.name \o <<">", "\n">>

\* the children of an element, serialised at depth d
RefChildren(cs, d) ==
    IF cs = <<>> THEN <<>>
    ELSE LET c == cs[1]
             one == IF c.kind = "Element" THEN RefElement(c, d)
                    ELSE IF c.kind = "Text" THEN Spaces(2 * d) \o c.body \o <<"\n">>
                    ELSE <<>>
         IN  one \o RefChildren(Tail(cs), d)

\* the top-level nodes: elements at depth 0, text verbatim
RECURSIVE RefNodes(_)
RefNodes(ns) ==
    IF ns = <<>> THEN <<>>
    ELSE (IF ns[1].kind = "Element" THEN RefElement(ns[1], 0)
          ELSE IF ns[1].kind = "Text" THEN ns[1].body
          ELSE <<>>)
         \o RefNodes(Tail(ns))

\* the elements of a node list that is rendered at depth d: each with its
\* depth and whether it is rendered (it is not below a void element)
RECURSIVE ElementsOf(_, _, _)
ElementsOf(ns, d, shown) ==
    UNION {IF ns[k].kind # "Element" THEN {}
           ELSE {[el |-> ns[k], depth |-> d, shown |-> shown]}
                \cup ElementsOf(ns[k].children, d + 1,
                                shown /\ ns[k].name \notin VoidElements) :
           k \in 1..Len(ns)}

\* the number of elements of a node list (the non-void ones only when
\* nonVoidOnly), with or without those below a void element
RECURSIVE CountElements(_, _, _)
CountElements(ns, nonVoidOnly, belowVoid) ==
    IF ns = <<>> THEN 0
    ELSE LET n == ns[1]
             isVoid == n.name \in VoidElements
         IN  (IF n.kind # "Element" THEN 0
              ELSE (IF nonVoidOnly /\ isVoid THEN 0 ELSE 1)
                   + (IF isVoid /\ ~belowVoid THEN 0
                      ELSE CountElements(n.children, nonVoidOnly, belowVoid)))
             + CountElements(Tail(ns), nonVoidOnly, belowVoid)

\* the opening and the closing tags of a string
OpeningTags(s) ==
    Cardinality({k \in 1..Len(s) : s[k] = "<" /\ (k = Len(s) \/ s[k + 1] # "/")})
ClosingTags(s) ==
    Cardinality({k \in 1..(Len(s) - 1) : s[k] = "<" /\ s[k + 1] = "/"})

\* a non-void element with no children and no attributes
IsBare(e) == e.children = <<>> /\ e.attrs = <<>> /\ e.name \notin VoidElements

\* C21 as claimed: the rendering is the reference serialisation, every
\* non-void element gives one opening and one closing tag, and a non-void
\* element with no children and no attributes renders as <name></name> on
\* one line.
C21_RenderIsReference ==
    pc = "rendered" =>
        /\ html = RefNodes(nodes)
        /\ ClosingTags(html) = CountElements(nodes, TRUE, TRUE)
        /\ \A r \in ElementsOf(nodes, 0, TRUE) :
               /\ RenderElement(r.el, r.depth) = RefElement(r.el, r.depth)
               /\ IsBare(r.el) =>
                      RenderElement(r.el, r.depth) =
                          Spaces(2 * r.depth) \o <<"<">> \o r.el.name
                          \o <<">", "<", "/">> \o r.el.name \o <<">", "\n">>

\* C21: the rendering is the reference serialisation at every depth; every
\* non-void element that is not below a void element gives one opening and
\* one closing tag; a non-void element with no children and no attributes
\* renders at depth d as one line: 2*d spaces, <name>, 2*d spaces, </name>.
C21_RenderIsReferenceIndented ==
    pc = "rendered" =>
        /\ html = RefNodes(nodes)
        /\ ClosingTags(html) = CountElements(nodes, TRUE, FALSE)
        /\ OpeningTags(html) = CountElements(nodes, FALSE, FALSE)
        /\ \A r \in ElementsOf(nodes, 0, TRUE) :
               /\ RenderElement(r.el, r.depth) = RefElement(r.el, r.depth)
               /\ IsBare(r.el) =>
                      /\ RenderElement(r.el, r.depth) =
                             Spaces(2 * r.depth) \o <<"<">> \o r.el.name \o <<">">>
                             \o Spaces(2 * r.depth)
                             \o <<"<", "/">> \o r.el.name \o <<">", "\n">>
                      /\ Count([k \in 1..Len(RenderElement(r.el, r.depth)) |->
                                  [ty |-> RenderElement(r.el, r.depth)[k]]], "\n") = 1

C21_Witness ==
    /\ pc = "rendered"
    /\ \E r \in ElementsOf(nodes, 0, TRUE) :
           IsBare(r.el) /\ r.depth = 2 /\ r.shown
    /\ \E r \in ElementsOf(nodes, 0, TRUE) :
           /\ r.depth = 1 /\ r.el.attrs # <<>>
           /\ \E k \in 1..Len(r.el.children) : r.el.children[k].kind = "Element"
    /\ \E r \in ElementsOf(nodes, 0, TRUE) :
           \E k \in 1..Len(r.el.children) : r.el.children[k].kind = "Text"
\* token k is an Id or Class selector that starts a line at the indentation
\* of an earlier line: it follows a NewLine, or the Outdent that closes the
\* child block of the element before it
SelectorStartsLine(toks, k) ==
    /\ toks[k].ty \in {"Id", "Class"}
    /\ k > 1
    /\ toks[k - 1].ty \in {"NewLine", "Outdent"}

\* C22: a line that begins with an Id or Class selector and follows an
\* element's line, or that element's indented child block, at the same
\* indentation becomes its own implicit div: the selector is taken by
\* parse_one and never added to the attributes of the element before it.
C22_SelectorLineIsOwnDiv ==
    Parsed =>
        \A a \in 1..Len(events) :
            SelectorStartsLine(tokens, events[a].tok) => events[a].fn = "parse_one"
\* C23: the top-level call of parse() returns only when every token has
\* been consumed: no trailing part of the template is left unparsed, and
\* the top-level frame is never ended by an Outdent.
C23_TopLevelParseTakesAll ==
    (Parsed /\ StartsWithTag) =>
        /\ index = Len(tokens)
        /\ \A a \in 1..Len(events) :
               (events[a].fn = "parse" /\ events[a].frame = 0) =>
                   tokens[events[a].tok].ty # "Outdent"

\* C24: tokenize never aborts: a next char is read only when there is one
\* and a scanned run is unwrapped only when it is not empty; an input that
\* ends with '|', an attribute name= directly followed by ')' and a quote
\* with no closing quote all return normally.
C24_TokenizeNeverAborts ==
    pc # "panic" \/ stop \notin {"pipe", "value", "quote"}

\* C25: whenever an Outdent token is emitted, the level sz left on top of
\* the indent stack is >= the leading-space count of the new line, so the
\* unsigned sz - level of the token's length never underflows.
C25_OutdentLengthNoUnderflow ==
    SpaceIndentedLines =>
    /\ stop # "overflow"
    /\ \A k \in 1..Len(tokens) :
           tokens[k].ty = "Outdent" => tokens[k].end - tokens[k].start >= 0

\* the element p whose one child is the element q
OneChild(pname, qname) ==
    <<[NewElement(pname) EXCEPT !.children = <<NewElement(qname)>>]>>

\* C26: a blank line (a line break directly followed by a line break) inside
\* an indented block leaves the indent stack unchanged and gives only
\* NewLine tokens, no Indent and no Outdent; so a blank line between two
\* lines does not change what the following lines are nested under.
C26_BlankLineKeepsLevels ==
    /\ [][(pc = "scan" /\ Peek(p) = "\n" /\ Peek(p + 1) = "\n") =>
              /\ indents' = indents
              /\ tokens' = Append(tokens, Tok("NewLine", <<>>, <<>>, pos, 1))]_vars
    /\ []((Parsed /\ src = <<"p", "\n", "\n", " ", " ", "q">>) =>
              nodes = OneChild(<<"p">>, <<"q">>))
====
